---- MODULE Spec2Model ----
(***************************************************************************)
(* Alert lifecycle manager of the cloud-monitoring demo (src/q2.py):       *)
(* CloudMonitor.classify_alert, CloudMonitor.handle_alerts,                *)
(* CloudMonitor.log_status and the Alert entity.                           *)
(*                                                                         *)
(* Time is the value datetime.now() returns, in whole seconds.  The clock  *)
(* never runs backwards.  Every datetime.now() in the source is a separate *)
(* read of that clock: the clock may advance between two reads of the same *)
(* handle_alerts call.  The first read of a call returns the clock value   *)
(* of the state the call starts in (time before the first read is covered  *)
(* by Tick); after the call the clock holds the value of its last read.    *)
(*                                                                         *)
(* pc is the statement of monitor_system the main thread is about to run;  *)
(* it moves only in the statement-by-statement specification SpecLoop, the *)
(* other specifications take a whole call as one step.                     *)
(***************************************************************************)
EXTENDS Integers, Sequences, FiniteSets, TLC

VARIABLES current_alert, log_history, logged, clock, effects, branch,
          new_alert_level, sample, pc

vars == <<current_alert, log_history, logged, clock, effects, branch,
          new_alert_level, sample, pc>>

(***************************************************************************)
(* Bounds of the model.                                                    *)
(***************************************************************************)
\* the clock is observed within Window seconds of every deadline of the tables
Window == 1
\* number of log_status calls beyond the capacity of the log
LogExtra == 2
\* how far around each threshold the classified samples range
Margin == 1

(***************************************************************************)
(* AlertLevel, its values (the labels, as sequences of code points) and    *)
(* the two tables.                                                         *)
(***************************************************************************)
AlertLevel == {"P0", "P1", "P2", "NO_ALERT"}

AlertLevelValue(level) ==
    CASE level = "P0" -> <<80, 48, 32, 40, 67, 114, 105, 116, 105, 99, 97, 108, 41>>
      [] level = "P1" -> <<80, 49, 32, 40, 77, 97, 106, 111, 114, 41>>
      [] level = "P2" -> <<80, 50, 32, 40, 77, 105, 110, 111, 114, 41>>
      [] level = "NO_ALERT" -> <<78, 111, 32, 65, 108, 101, 114, 116>>

ALERT_THRESHOLDS ==
    [level \in {"P0", "P1", "P2"} |->
        CASE level = "P0" -> [latency |-> 2000, failure_rate |-> 10]
          [] level = "P1" -> [latency |-> 1000, failure_rate |-> 5]
          [] level = "P2" -> [latency |-> 500, failure_rate |-> 2]]

ALERT_REPEAT_TIMES ==
    [level \in {"P0", "P1", "P2"} |->
        CASE level = "P0" -> 2
          [] level = "P1" -> 12
          [] level = "P2" -> 48]

\* the multiplier of the repeat time after which the boss is notified
BossFactor == 5

\* len(self.log_history) > 90 * 24 * 12
LogCapacity == 90 * 24 * 12

TeamRecipient == "team@company.com"
BossRecipient == "boss@company.com"

(***************************************************************************)
(* Python's < on str: lexicographic on code points, a proper prefix is     *)
(* smaller.                                                                *)
(***************************************************************************)
RECURSIVE StrLessFrom(_, _, _)
StrLessFrom(a, b, i) ==
    IF i > Len(b) THEN FALSE
    ELSE IF i > Len(a) THEN TRUE
    ELSE IF a[i] < b[i] THEN TRUE
    ELSE IF a[i] > b[i] THEN FALSE
    ELSE StrLessFrom(a, b, i + 1)

StrLess(a, b) == StrLessFrom(a, b, 1)

(***************************************************************************)
(* CloudMonitor.classify_alert                                             *)
(***************************************************************************)
\* variant: thresholds compared with >= instead of >
classify_alert_inclusive(latency, failure_rate) ==
    IF latency >= ALERT_THRESHOLDS["P0"].latency
       \/ failure_rate >= ALERT_THRESHOLDS["P0"].failure_rate
    THEN "P0"
    ELSE IF latency >= ALERT_THRESHOLDS["P1"].latency
            \/ failure_rate >= ALERT_THRESHOLDS["P1"].failure_rate
    THEN "P1"
    ELSE IF latency >= ALERT_THRESHOLDS["P2"].latency
            \/ failure_rate >= ALERT_THRESHOLDS["P2"].failure_rate
    THEN "P2"
    ELSE "NO_ALERT"

classify_alert(latency, failure_rate) ==
    IF latency > ALERT_THRESHOLDS["P0"].latency
       \/ failure_rate > ALERT_THRESHOLDS["P0"].failure_rate
    THEN "P0"
    ELSE IF latency > ALERT_THRESHOLDS["P1"].latency
            \/ failure_rate > ALERT_THRESHOLDS["P1"].failure_rate
    THEN "P1"
    ELSE IF latency > ALERT_THRESHOLDS["P2"].latency
            \/ failure_rate > ALERT_THRESHOLDS["P2"].failure_rate
    THEN "P2"
    ELSE "NO_ALERT"

(***************************************************************************)
(* The Alert entity.  current_alert is None (the empty sequence) or a      *)
(* one-element sequence holding the Alert.                                 *)
(***************************************************************************)
None == <<>>

\* Alert.__init__: two successive reads of the clock, t1 then t2
Alert(alert_level, t1, t2) ==
    [alert_level |-> alert_level, trigger_time |-> t1, last_notified |-> t2]

\* variant: the refresh writes the wrong timestamp field
update_trigger_time(alert, now) == [alert EXCEPT !.trigger_time = now]

\* variant: the refresh restarts the alert, both timestamps are set
update_both_timestamps(alert, now) ==
    [alert EXCEPT !.trigger_time = now, !.last_notified = now]

\* Alert.update_last_notified
update_last_notified(alert, now) == [alert EXCEPT !.last_notified = now]

\* Alert.time_since_trigger
time_since_trigger(alert, now) == now - alert.trigger_time

\* Alert.time_since_last_notified
time_since_last_notified(alert, now) == now - alert.last_notified

(***************************************************************************)
(* Effects of a handle_alerts call, in the order they are produced.        *)
(***************************************************************************)
\* CloudMonitor.send_email
send_email(alert_level, recipient) ==
    [effect |-> "email", alert_level |-> alert_level, recipient |-> recipient]

\* CloudMonitor.simulate_pr_merge
simulate_pr_merge == [effect |-> "pr_merge", alert_level |-> "NO_ALERT", recipient |-> "none"]

(***************************************************************************)
(* The instants at which the clock is observed.                            *)
(***************************************************************************)
Deadlines ==
    {0} \cup {ALERT_REPEAT_TIMES[l] : l \in {"P0", "P1", "P2"}}
        \cup {ALERT_REPEAT_TIMES[l] * BossFactor : l \in {"P0", "P1", "P2"}}

Instants ==
    {t \in 0..(ALERT_REPEAT_TIMES["P2"] * BossFactor + Window) :
        \E d \in Deadlines : t >= d - Window /\ t <= d + Window}

Later(t) == {u \in Instants : u >= t}

\* the clock advances between two calls; the effects of the last call are consumed
Tick ==
    /\ \E u \in Instants : u > clock /\ clock' = u
    /\ effects' = <<>>
    /\ branch' = "idle"
    /\ UNCHANGED <<current_alert, log_history, logged, new_alert_level, sample, pc>>

(***************************************************************************)
(* CloudMonitor.handle_alerts                                              *)
(***************************************************************************)
\* variant: the resolution leaves the alert in place
resolve_alert_keeps(alert) == alert

\* CloudMonitor.resolve_alert, called when self.current_alert is truthy
resolve_alert(alert) == IF alert # None THEN None ELSE alert

\* variant: the comparison of the labels is turned around
IsUpgradeReversed(new_level, open_level) ==
    StrLess(AlertLevelValue(open_level), AlertLevelValue(new_level))

\* variant: any other level replaces the open alert
IsChange(new_level, open_level) == new_level # open_level

\* variant: <= instead of <, a sample of the same level replaces the alert too
IsUpgradeOrSame(new_level, open_level) ==
    \/ new_level = open_level
    \/ StrLess(AlertLevelValue(new_level), AlertLevelValue(open_level))

\* new_alert_level.value < self.current_alert.alert_level.value
IsUpgrade(new_level, open_level) ==
    StrLess(AlertLevelValue(new_level), AlertLevelValue(open_level))

\* variant: the resend waits until the interval is strictly exceeded
ResendDueStrict(alert, now) ==
    time_since_last_notified(alert, now) > ALERT_REPEAT_TIMES[alert.alert_level]

\* time_since_last_notified() >= timedelta(seconds=ALERT_REPEAT_TIMES[new_alert_level])
ResendDue(alert, now) ==
    time_since_last_notified(alert, now) >= ALERT_REPEAT_TIMES[alert.alert_level]

\* variant: the boss is notified only when the deadline is strictly exceeded
BossDueStrict(alert, now) ==
    time_since_trigger(alert, now) > ALERT_REPEAT_TIMES[alert.alert_level] * BossFactor

\* variant: the multiplier of the repeat time is left out
BossDueAtRepeatTime(alert, now) ==
    time_since_trigger(alert, now) >= ALERT_REPEAT_TIMES[alert.alert_level]

\* time_since_trigger() >= timedelta(seconds=ALERT_REPEAT_TIMES[alert_level] * 5)
BossDue(alert, now) ==
    time_since_trigger(alert, now) >= ALERT_REPEAT_TIMES[alert.alert_level] * BossFactor

\* the if / elif chain of handle_alerts for a sample above NO_ALERT;
\* now is the clock read by time_since_last_notified
Branch(alert, new_level, now) ==
    IF alert = None THEN "opened"
    ELSE IF IsUpgrade(new_level, alert[1].alert_level) THEN "upgraded"
    ELSE IF new_level = alert[1].alert_level
         THEN (IF ResendDue(alert[1], now) THEN "resent" ELSE "throttled")
    ELSE "ignored"

\* the alert the if / elif chain leaves behind; t1, t2 are its clock reads
AlertAfter(alert, new_level, path, t1, t2) ==
    IF path \in {"opened", "upgraded"} THEN <<Alert(new_level, t1, t2)>>
    ELSE IF path = "resent" THEN <<update_last_notified(alert[1], t2)>>
    ELSE alert

\* variant: no e-mail to the team when an alert is created
PrimaryEmailsOnResendOnly(new_level, path) ==
    IF path = "resent" THEN <<send_email(new_level, TeamRecipient)>> ELSE <<>>

\* the e-mails to the team the if / elif chain sends
PrimaryEmails(new_level, path) ==
    IF path \in {"opened", "upgraded", "resent"}
    THEN <<send_email(new_level, TeamRecipient)>>
    ELSE <<>>

\* the check of the long-standing alert; now is the clock it reads
BossEmails(alert, now) ==
    IF alert # None /\ BossDue(alert[1], now)
    THEN <<send_email(alert[1].alert_level, BossRecipient)>>
    ELSE <<>>

\* random.random() < 0.1 while an alert is open
PrMerges(alert, roll) ==
    IF alert # None /\ roll THEN <<simulate_pr_merge>> ELSE <<>>

\* variant: the return is missing and the call goes on to create an alert
NormalizedFallsThrough ==
    /\ current_alert' = IF current_alert # None THEN None
                        ELSE <<Alert("NO_ALERT", clock, clock)>>
    /\ effects' = IF current_alert # None THEN <<>>
                  ELSE <<send_email("NO_ALERT", TeamRecipient)>>
    /\ branch' = IF current_alert # None THEN "resolved" ELSE "quiet"
    /\ UNCHANGED clock

\* the sample normalized: resolve any active alert and return
Normalized ==
    /\ current_alert' = resolve_alert(current_alert)
    /\ effects' = <<>>
    /\ branch' = IF current_alert # None THEN "resolved" ELSE "quiet"
    /\ UNCHANGED clock

\* variant: the simulated PR merge resolves the alert
RaisedMergeResolves(new_level) ==
    \E t1 \in {clock} :
    \E path \in {Branch(current_alert, new_level, t1)} :
    \E t2 \in (IF path \in {"opened", "upgraded", "resent"} THEN Later(t1) ELSE {t1}) :
    \E after \in {AlertAfter(current_alert, new_level, path, t1, t2)} :
    \E t3 \in (IF path = "ignored" THEN {t1} ELSE Later(t2)) :
    \E roll \in BOOLEAN :
        /\ current_alert' = IF roll THEN None ELSE after
        /\ effects' = PrimaryEmails(new_level, path) \o BossEmails(after, t3)
                         \o PrMerges(after, roll)
        /\ branch' = path
        /\ clock' = t3

\* variant: the long-standing check runs before the if / elif chain sends its e-mail
RaisedBossFirst(new_level) ==
    \E t1 \in {clock} :
    \E path \in {Branch(current_alert, new_level, t1)} :
    \E t2 \in (IF path \in {"opened", "upgraded", "resent"} THEN Later(t1) ELSE {t1}) :
    \E after \in {AlertAfter(current_alert, new_level, path, t1, t2)} :
    \E t3 \in (IF path = "ignored" THEN {t1} ELSE Later(t2)) :
    \E roll \in BOOLEAN :
        /\ current_alert' = after
        /\ effects' = BossEmails(after, t3) \o PrimaryEmails(new_level, path)
                         \o PrMerges(after, roll)
        /\ branch' = path
        /\ clock' = t3

\* a sample above NO_ALERT; the call reads the clock at t1 = clock, then at t2
\* (Alert.__init__, update_last_notified), then at t3 (time_since_trigger)
Raised(new_level) ==
    \E t1 \in {clock} :
    \E path \in {Branch(current_alert, new_level, t1)} :
    \E t2 \in (IF path \in {"opened", "upgraded", "resent"} THEN Later(t1) ELSE {t1}) :
    \E after \in {AlertAfter(current_alert, new_level, path, t1, t2)} :
    \E t3 \in (IF path = "ignored" THEN {t1} ELSE Later(t2)) :
    \E roll \in BOOLEAN :
        /\ current_alert' = after
        /\ effects' = PrimaryEmails(new_level, path) \o BossEmails(after, t3)
                         \o PrMerges(after, roll)
        /\ branch' = path
        /\ clock' = t3

HandleAlerts(latency, failure_rate) ==
    LET new_level == classify_alert(latency, failure_rate)
    IN /\ new_alert_level' = new_level
       /\ IF new_level = "NO_ALERT" THEN Normalized ELSE Raised(new_level)
       /\ UNCHANGED <<log_history, logged, sample, pc>>

\* the samples handle_alerts is fed: one on the thresholds of each level (it
\* classifies one level lower) and one with only the failure rate above P0's
Samples ==
    {<<ALERT_THRESHOLDS["P2"].latency, ALERT_THRESHOLDS["P2"].failure_rate>>,
     <<ALERT_THRESHOLDS["P1"].latency, ALERT_THRESHOLDS["P1"].failure_rate>>,
     <<ALERT_THRESHOLDS["P0"].latency, ALERT_THRESHOLDS["P0"].failure_rate>>,
     <<0, ALERT_THRESHOLDS["P0"].failure_rate + Margin>>}

\* CloudMonitor.__init__, before any sample
Init ==
    /\ current_alert = None
    /\ log_history = <<>>
    /\ logged = 0
    /\ clock = 0
    /\ effects = <<>>
    /\ branch = "init"
    /\ new_alert_level = "NO_ALERT"
    /\ sample = <<0, 0>>
    /\ pc = "generate_metrics"

Handle == \E s \in Samples : HandleAlerts(s[1], s[2])

Next == Tick \/ Handle

Spec == Init /\ [][Next]_vars

(***************************************************************************)
(* classify_alert on its own: the samples range over the values on, below  *)
(* and above every threshold, and below zero.                              *)
(***************************************************************************)
Alerting == {"P0", "P1", "P2"}

Latencies ==
    (-Margin..0) \cup UNION {(ALERT_THRESHOLDS[l].latency - Margin)
                                ..(ALERT_THRESHOLDS[l].latency + Margin) : l \in Alerting}

FailureRates ==
    (-Margin..0) \cup UNION {(ALERT_THRESHOLDS[l].failure_rate - Margin)
                                ..(ALERT_THRESHOLDS[l].failure_rate + Margin) : l \in Alerting}

\* cloud_monitor.classify_alert(latency, failure_rate) on one sample
ClassifyAlert ==
    /\ \E latency \in Latencies, failure_rate \in FailureRates :
          /\ sample' = <<latency, failure_rate>>
          /\ new_alert_level' = classify_alert(latency, failure_rate)
    /\ branch' = "classified"
    /\ UNCHANGED <<current_alert, log_history, logged, clock, effects, pc>>

NextClassify == ClassifyAlert

SpecClassify == Init /\ [][NextClassify]_vars

(***************************************************************************)
(* CloudMonitor.log_status on its own.  A log message is represented by    *)
(* its arrival number: the k-th call appends message k.                    *)
(***************************************************************************)
MaxLogged == LogCapacity + LogExtra

\* variant: the oldest message is dropped as soon as the capacity is reached
LogAppendInclusive(log, log_message) ==
    LET appended == Append(log, log_message)
    IN IF Len(appended) >= LogCapacity THEN Tail(appended) ELSE appended

\* self.log_history.append(log_message); pop(0) when longer than the capacity
LogAppend(log, log_message) ==
    LET appended == Append(log, log_message)
    IN IF Len(appended) > LogCapacity THEN Tail(appended) ELSE appended

LogStatus ==
    /\ logged < MaxLogged
    /\ logged' = logged + 1
    /\ log_history' = LogAppend(log_history, logged + 1)
    /\ branch' = "logged"
    /\ UNCHANGED <<current_alert, clock, effects, new_alert_level, sample, pc>>

NextLog == LogStatus

\* the empty log of CloudMonitor.__init__, or the log LogCapacity - 1 calls
\* have filled without any eviction (a state of the run from the empty log)
InitLog ==
    /\ \E n \in {0, LogCapacity - 1} :
          /\ logged = n
          /\ log_history = [k \in 1..n |-> k]
    /\ current_alert = None
    /\ clock = 0
    /\ effects = <<>>
    /\ branch = "init"
    /\ new_alert_level = "NO_ALERT"
    /\ sample = <<0, 0>>
    /\ pc = "generate_metrics"

SpecLog == InitLog /\ [][NextLog]_vars

(***************************************************************************)
(* monitor_system statement by statement.  pc names the statement the main *)
(* thread runs next.  CPython raises KeyboardInterrupt in the main thread  *)
(* between any two bytecodes; the try of monitor_system wraps the whole    *)
(* loop and nothing masks the signal, so the loop can stop at every pc.    *)
(* branch holds the path the if / elif chain of the running call chose,    *)
(* effects the effects that call has emitted so far.                       *)
(* The runs of this specification are the runs in which the statements of  *)
(* one iteration execute within one second of the clock: every clock read  *)
(* of an iteration returns the same value, the clock advances in           *)
(* time.sleep.                                                             *)
(***************************************************************************)
\* latency, failure_rate = metric_simulator.generate_metrics()
GenerateMetrics ==
    /\ pc = "generate_metrics"
    /\ logged < MaxLogged
    /\ \E s \in Samples : sample' = s
    /\ pc' = "log_status"
    /\ UNCHANGED <<current_alert, log_history, logged, clock, effects, branch,
                   new_alert_level>>

\* log_status up to self.log_history.append(log_message)
LogStatusAppend ==
    /\ pc = "log_status"
    /\ logged' = logged + 1
    /\ log_history' = Append(log_history, logged + 1)
    /\ pc' = "log_trim"
    /\ UNCHANGED <<current_alert, clock, effects, branch, new_alert_level, sample>>

\* if len(self.log_history) > 90 * 24 * 12: self.log_history.pop(0)
LogStatusTrim ==
    /\ pc = "log_trim"
    /\ log_history' = IF Len(log_history) > LogCapacity
                      THEN Tail(log_history) ELSE log_history
    /\ pc' = "classify"
    /\ UNCHANGED <<current_alert, logged, clock, effects, branch, new_alert_level,
                   sample>>

\* handle_alerts is entered: new_alert_level = self.classify_alert(...)
HandleClassify ==
    /\ pc = "classify"
    /\ new_alert_level' = classify_alert(sample[1], sample[2])
    /\ effects' = <<>>
    /\ branch' = "called"
    /\ pc' = IF classify_alert(sample[1], sample[2]) = "NO_ALERT"
             THEN "normalized" ELSE "dispatch"
    /\ UNCHANGED <<current_alert, log_history, logged, clock, sample>>

\* the sample normalized: resolve any active alert and return
HandleNormalized ==
    /\ pc = "normalized"
    /\ current_alert' = resolve_alert(current_alert)
    /\ branch' = IF current_alert # None THEN "resolved" ELSE "quiet"
    /\ pc' = "sleep"
    /\ UNCHANGED <<log_history, logged, clock, effects, new_alert_level, sample>>

\* the conditions of the if / elif chain; time_since_last_notified reads the
\* clock when the sample has the level of the open alert
HandleDispatch ==
    /\ pc = "dispatch"
    /\ \E path \in {Branch(current_alert, new_alert_level, clock)} :
          /\ branch' = path
          /\ pc' = IF path \in {"opened", "upgraded"} THEN "create"
                   ELSE IF path = "resent" THEN "update_last_notified"
                   ELSE "boss_check"
    /\ UNCHANGED <<current_alert, log_history, logged, clock, effects,
                   new_alert_level, sample>>

\* self.current_alert = Alert(new_alert_level)
HandleCreate ==
    /\ pc = "create"
    /\ current_alert' = <<Alert(new_alert_level, clock, clock)>>
    /\ pc' = "send_email"
    /\ UNCHANGED <<log_history, logged, clock, effects, branch, new_alert_level,
                   sample>>

\* self.current_alert.update_last_notified()
HandleUpdateLastNotified ==
    /\ pc = "update_last_notified"
    /\ current_alert' = <<update_last_notified(current_alert[1], clock)>>
    /\ pc' = "send_email"
    /\ UNCHANGED <<log_history, logged, clock, effects, branch, new_alert_level,
                   sample>>

\* self.send_email(new_alert_level, "team@company.com")
HandleSendEmail ==
    /\ pc = "send_email"
    /\ effects' = Append(effects, send_email(new_alert_level, TeamRecipient))
    /\ pc' = "boss_check"
    /\ UNCHANGED <<current_alert, log_history, logged, clock, branch,
                   new_alert_level, sample>>

\* the check of the long-standing alert
HandleBossCheck ==
    /\ pc = "boss_check"
    /\ effects' = effects \o BossEmails(current_alert, clock)
    /\ pc' = "pr_merge"
    /\ UNCHANGED <<current_alert, log_history, logged, clock, branch,
                   new_alert_level, sample>>

\* if self.current_alert and random.random() < 0.1: self.simulate_pr_merge()
HandlePrMerge ==
    /\ pc = "pr_merge"
    /\ \E roll \in BOOLEAN : effects' = effects \o PrMerges(current_alert, roll)
    /\ pc' = "sleep"
    /\ UNCHANGED <<current_alert, log_history, logged, clock, branch,
                   new_alert_level, sample>>

\* time.sleep(0.2): the clock stays in its second or reaches a later instant;
\* the effects of the call are consumed, as in Tick
Sleep ==
    /\ pc = "sleep"
    /\ \E u \in Later(clock) : clock' = u
    /\ effects' = <<>>
    /\ branch' = "idle"
    /\ pc' = "generate_metrics"
    /\ UNCHANGED <<current_alert, log_history, logged, new_alert_level, sample>>

\* KeyboardInterrupt raised before the statement at pc; the except clause
\* prints and monitor_system returns
KeyboardInterrupt ==
    /\ pc # "stopped"
    /\ pc' = "stopped"
    /\ UNCHANGED <<current_alert, log_history, logged, clock, effects, branch,
                   new_alert_level, sample>>

NextLoop ==
    \/ GenerateMetrics
    \/ LogStatusAppend
    \/ LogStatusTrim
    \/ HandleClassify
    \/ HandleNormalized
    \/ HandleDispatch
    \/ HandleCreate
    \/ HandleUpdateLastNotified
    \/ HandleSendEmail
    \/ HandleBossCheck
    \/ HandlePrMerge
    \/ Sleep
    \/ KeyboardInterrupt

\* the monitor after LogCapacity iterations on quiet samples: no alert open,
\* the log at its capacity, no message evicted yet
InitLoop ==
    /\ logged = LogCapacity
    /\ log_history = [k \in 1..LogCapacity |-> k]
    /\ current_alert = None
    /\ clock = 0
    /\ effects = <<>>
    /\ branch = "idle"
    /\ new_alert_level = "NO_ALERT"
    /\ sample = <<0, 0>>
    /\ pc = "generate_metrics"

SpecLoop == InitLoop /\ [][NextLoop]_vars

(***************************************************************************)
(* Unbounded time.  The clock is observed on the deadlines of the tables,  *)
(* within one horizon: the longest deadline.  When the clock has reached   *)
(* the horizon the origin of time is moved there.  The program compares    *)
(* only differences of clock reads with the deadlines, none longer than    *)
(* the horizon, so a timestamp older than one horizon is as good as one    *)
(* horizon old.                                                            *)
(***************************************************************************)
Horizon == ALERT_REPEAT_TIMES["P2"] * BossFactor

\* the timestamp t seen from the new origin
Shift(t) == IF t < 0 THEN -Horizon ELSE t - Horizon

Rebase(alert) ==
    IF alert = None THEN None
    ELSE <<Alert(alert[1].alert_level, Shift(alert[1].trigger_time),
                 Shift(alert[1].last_notified))>>

\* the clock reads now and the timestamps of alert fall on deadlines of this
\* horizon or of the one before
OnDeadlines(alert, now) ==
    /\ now \in Deadlines
    /\ alert # None =>
          \A t \in {alert[1].trigger_time, alert[1].last_notified} :
              t \in Deadlines \/ t + Horizon \in Deadlines

\* the clock advances between two calls
TickLive == Tick /\ OnDeadlines(current_alert', clock')

\* one iteration of the loop: handle_alerts on the next sample
HandleLive == Handle /\ OnDeadlines(current_alert', clock')

\* between two calls, at the horizon: the origin of time moves
NewHorizon ==
    /\ clock = Horizon
    /\ clock' = 0
    /\ current_alert' = Rebase(current_alert)
    /\ effects' = <<>>
    /\ branch' = "idle"
    /\ UNCHANGED <<log_history, logged, new_alert_level, sample, pc>>

NextLive == TickLive \/ HandleLive \/ NewHorizon

\* the loop of monitor_system never ends by itself: handle_alerts is called
\* again and again, and the clock keeps advancing
SpecLive ==
    /\ Init
    /\ [][NextLive]_vars
    /\ WF_vars(HandleLive)
    /\ WF_vars(TickLive \/ NewHorizon)

(***************************************************************************)
(* Vocabulary of the properties.                                           *)
(***************************************************************************)
\* the rank order NONE < LOW(P2) < MAJOR(P1) < CRITICAL(P0)
Rank(level) ==
    CASE level = "NO_ALERT" -> 0
      [] level = "P2" -> 1
      [] level = "P1" -> 2
      [] level = "P0" -> 3

\* a threshold of level is strictly exceeded by the sample smp
Exceeded(level, smp) ==
    \/ smp[1] > ALERT_THRESHOLDS[level].latency
    \/ smp[2] > ALERT_THRESHOLDS[level].failure_rate

\* positions of the e-mails to recipient among the effects effs
EmailsTo(effs, recipient) ==
    {i \in DOMAIN effs : effs[i].effect = "email" /\ effs[i].recipient = recipient}

PrimaryCount(effs) == Cardinality(EmailsTo(effs, TeamRecipient))
SecondaryCount(effs) == Cardinality(EmailsTo(effs, BossRecipient))
NotifyCount(effs) == PrimaryCount(effs) + SecondaryCount(effs)
RemediationCount(effs) ==
    Cardinality({i \in DOMAIN effs : effs[i].effect = "pr_merge"})

\* the step is a handle_alerts call
CallStep == branch' \in {"quiet", "resolved", "opened", "upgraded", "resent",
                         "throttled", "ignored"}

Open == current_alert # None

(***************************************************************************)
(* C1: classify_alert returns the highest-ranked level of P0, P1, P2 that  *)
(* has its latency threshold or its failure-rate threshold strictly        *)
(* exceeded by the sample, and NO_ALERT when no threshold is strictly      *)
(* exceeded; a value equal to a threshold does not trigger its level.      *)
(***************************************************************************)
C1_ClassifyHighestExceeded ==
    branch = "classified" =>
        LET exceeded == {l \in Alerting : Exceeded(l, sample)}
        IN IF exceeded = {}
           THEN new_alert_level = "NO_ALERT"
           ELSE /\ new_alert_level \in exceeded
                /\ \A l \in exceeded : Rank(l) <= Rank(new_alert_level)

\* latency on the P0 threshold, failure rate above the P1 threshold: P1
C1_Witness ==
    /\ branch = "classified"
    /\ sample = <<ALERT_THRESHOLDS["P0"].latency,
                  ALERT_THRESHOLDS["P1"].failure_rate + 1>>
    /\ new_alert_level = "P1"

(***************************************************************************)
(* C2 as stated: a call that finds no alert open and classifies its sample *)
(* above NO_ALERT leaves an open alert of that level whose trigger_time    *)
(* and last_notified both equal the time of the call, and sends exactly    *)
(* one e-mail to the team.                                                 *)
(***************************************************************************)
C2_OpeningOneInstant ==
    [][(CallStep /\ ~Open /\ new_alert_level' # "NO_ALERT") =>
          /\ current_alert' # None
          /\ current_alert'[1].alert_level = new_alert_level'
          /\ current_alert'[1].trigger_time = clock
          /\ current_alert'[1].last_notified = clock
          /\ PrimaryCount(effects') = 1]_vars

(***************************************************************************)
(* C2 amended: a call that finds no alert open and classifies its sample   *)
(* above NO_ALERT leaves an open alert of that level; trigger_time is the  *)
(* clock read when the alert is created, last_notified is a second read    *)
(* of the clock in the same call, not earlier than trigger_time and not    *)
(* later than the end of the call; exactly one e-mail goes to the team,    *)
(* for that level, before any other effect.                                *)
(***************************************************************************)
C2_Opening ==
    [][(CallStep /\ ~Open /\ new_alert_level' # "NO_ALERT") =>
          /\ current_alert' # None
          /\ current_alert'[1].alert_level = new_alert_level'
          /\ current_alert'[1].trigger_time = clock
          /\ current_alert'[1].trigger_time <= current_alert'[1].last_notified
          /\ current_alert'[1].last_notified <= clock'
          /\ PrimaryCount(effects') = 1
          /\ effects'[1] = send_email(new_alert_level', TeamRecipient)]_vars

\* an alert just opened whose two timestamps differ
C2_Witness ==
    /\ branch = "opened"
    /\ Open
    /\ current_alert[1].alert_level = new_alert_level
    /\ current_alert[1].trigger_time < current_alert[1].last_notified
    /\ PrimaryCount(effects) = 1

(***************************************************************************)
(* C3 as stated: an open alert of level s is replaced by a sample of level *)
(* s2 above NO_ALERT if and only if s2 is strictly higher than s in rank;  *)
(* the new alert has level s2, trigger_time and last_notified both reset   *)
(* to the time of the call, and exactly one e-mail goes to the team.       *)
(***************************************************************************)
C3_EscalationOneInstant ==
    [][(CallStep /\ Open /\ new_alert_level' # "NO_ALERT") =>
          IF Rank(new_alert_level') > Rank(current_alert[1].alert_level)
          THEN /\ current_alert' # None
               /\ current_alert'[1].alert_level = new_alert_level'
               /\ current_alert'[1].trigger_time = clock
               /\ current_alert'[1].last_notified = clock
               /\ PrimaryCount(effects') = 1
          ELSE /\ current_alert' # None
               /\ current_alert'[1].alert_level = current_alert[1].alert_level
               /\ current_alert'[1].trigger_time = current_alert[1].trigger_time]_vars

(***************************************************************************)
(* C3 amended: an open alert of level s is replaced by a sample of level   *)
(* s2 above NO_ALERT if and only if s2 is strictly higher than s in rank;  *)
(* the new alert has level s2, its trigger_time is the clock read when it  *)
(* is created and its last_notified a second read in the same call, not    *)
(* earlier than trigger_time; exactly one e-mail goes to the team.  An     *)
(* alert that is not replaced keeps its level and its trigger_time.        *)
(***************************************************************************)
C3_Escalation ==
    [][(CallStep /\ Open /\ new_alert_level' # "NO_ALERT") =>
          IF Rank(new_alert_level') > Rank(current_alert[1].alert_level)
          THEN /\ current_alert' # None
               /\ current_alert'[1].alert_level = new_alert_level'
               /\ current_alert'[1].trigger_time = clock
               /\ current_alert'[1].trigger_time <= current_alert'[1].last_notified
               /\ current_alert'[1].last_notified <= clock'
               /\ PrimaryCount(effects') = 1
               /\ effects'[1] = send_email(new_alert_level', TeamRecipient)
          ELSE /\ current_alert' # None
               /\ current_alert'[1].alert_level = current_alert[1].alert_level
               /\ current_alert'[1].trigger_time = current_alert[1].trigger_time]_vars

\* an alert escalated to P0 whose two timestamps differ
C3_Witness ==
    /\ branch = "upgraded"
    /\ Open
    /\ current_alert[1].alert_level = "P0"
    /\ new_alert_level = "P0"
    /\ current_alert[1].trigger_time < current_alert[1].last_notified
    /\ PrimaryCount(effects) = 1

(***************************************************************************)
(* C4 as stated: for an open alert of level s last notified at t, a call   *)
(* with a sample of the same level whose throttle check reads the clock at *)
(* t2 emits zero notify effects when t2 - t < ALERT_REPEAT_TIMES[s] and    *)
(* exactly one notify effect when t2 - t >= ALERT_REPEAT_TIMES[s].         *)
(***************************************************************************)
C4_ResendAllNotifies ==
    [][(CallStep /\ Open /\ new_alert_level' = current_alert[1].alert_level) =>
          IF clock - current_alert[1].last_notified
                < ALERT_REPEAT_TIMES[current_alert[1].alert_level]
          THEN NotifyCount(effects') = 0
          ELSE NotifyCount(effects') = 1]_vars

(***************************************************************************)
(* C4 amended: for an open alert of level s last notified at t, a call     *)
(* with a sample of the same level whose throttle check reads the clock at *)
(* t2 sends no e-mail to the team and leaves the alert untouched when      *)
(* t2 - t < ALERT_REPEAT_TIMES[s], and sends exactly one e-mail to the     *)
(* team when t2 - t >= ALERT_REPEAT_TIMES[s]; the e-mail to the boss is    *)
(* decided separately and may be sent in either case.                      *)
(***************************************************************************)
C4_ResendThrottling ==
    [][(CallStep /\ Open /\ new_alert_level' = current_alert[1].alert_level) =>
          IF clock - current_alert[1].last_notified
                < ALERT_REPEAT_TIMES[current_alert[1].alert_level]
          THEN /\ PrimaryCount(effects') = 0
               /\ current_alert' = current_alert
          ELSE /\ PrimaryCount(effects') = 1
               /\ effects'[1] = send_email(new_alert_level', TeamRecipient)]_vars

\* a throttled call one second before the resend is due
C4_Witness ==
    /\ branch = "throttled"
    /\ Open
    /\ clock - current_alert[1].last_notified
          = ALERT_REPEAT_TIMES[current_alert[1].alert_level] - 1
    /\ PrimaryCount(effects) = 0

\* a throttled call that sends the e-mail to the boss all the same
C4_ThrottledButBossNotified ==
    /\ branch = "throttled"
    /\ PrimaryCount(effects) = 0
    /\ SecondaryCount(effects) = 1

\* a resend whose refresh equals the deadline of the previous notification:
\* the alert was opened at 0 and notified at 0, the resend happens at the interval
C4_ResentOnDeadline ==
    /\ branch = "resent"
    /\ Open
    /\ current_alert[1].trigger_time = 0
    /\ current_alert[1].last_notified = ALERT_REPEAT_TIMES[current_alert[1].alert_level]
    /\ clock = current_alert[1].last_notified
    /\ PrimaryCount(effects) = 1

(***************************************************************************)
(* C5 as stated: once an alert has been open for five times the repeat     *)
(* time of its level, every subsequent handle_alerts call sends an e-mail  *)
(* to the boss.                                                            *)
(***************************************************************************)
C5_BossOnEveryCall ==
    [][(/\ CallStep
        /\ Open
        /\ clock - current_alert[1].trigger_time
              >= ALERT_REPEAT_TIMES[current_alert[1].alert_level] * BossFactor) =>
          SecondaryCount(effects') >= 1]_vars

(***************************************************************************)
(* C5 amended: once an alert has been open for five times the repeat time  *)
(* of its level, every subsequent handle_alerts call whose sample          *)
(* classifies above NO_ALERT and not above the level of the open alert     *)
(* sends exactly one e-mail to the boss, for the level of the open alert,  *)
(* after the resend to the team when one is due in that call; this         *)
(* happens on every such call.                                             *)
(***************************************************************************)
C5_SecondaryEscalation ==
    [][(/\ CallStep
        /\ Open
        /\ clock - current_alert[1].trigger_time
              >= ALERT_REPEAT_TIMES[current_alert[1].alert_level] * BossFactor
        /\ new_alert_level' # "NO_ALERT"
        /\ Rank(new_alert_level') <= Rank(current_alert[1].alert_level)) =>
          /\ SecondaryCount(effects') = 1
          /\ \A i \in EmailsTo(effects', BossRecipient) :
                /\ effects'[i].alert_level = current_alert[1].alert_level
                /\ \A j \in EmailsTo(effects', TeamRecipient) : j < i
          /\ (/\ new_alert_level' = current_alert[1].alert_level
              /\ clock - current_alert[1].last_notified
                    >= ALERT_REPEAT_TIMES[current_alert[1].alert_level])
                => PrimaryCount(effects') = 1]_vars

\* a call on the deadline that resends to the team and notifies the boss
C5_Witness ==
    /\ branch = "resent"
    /\ Open
    /\ clock - current_alert[1].trigger_time
          = ALERT_REPEAT_TIMES[current_alert[1].alert_level] * BossFactor
    /\ PrimaryCount(effects) = 1
    /\ SecondaryCount(effects) = 1

(***************************************************************************)
(* C6: a call that finds an alert open and classifies its sample NO_ALERT  *)
(* leaves no alert open and emits no e-mail, to the team or to the boss,   *)
(* and no PR merge.                                                        *)
(***************************************************************************)
C6_Resolution ==
    [][(CallStep /\ Open /\ new_alert_level' = "NO_ALERT") =>
          /\ current_alert' = None
          /\ NotifyCount(effects') = 0
          /\ RemediationCount(effects') = 0]_vars

C6_Witness ==
    /\ branch = "resolved"
    /\ new_alert_level = "NO_ALERT"
    /\ current_alert = None
    /\ effects = <<>>

(***************************************************************************)
(* C7: a call that finds an alert open at level s and classifies its       *)
(* sample strictly below s but above NO_ALERT leaves the alert untouched   *)
(* (level, trigger_time and last_notified) and sends no e-mail to the team.*)
(***************************************************************************)
C7_DowngradeIgnored ==
    [][(/\ CallStep
        /\ Open
        /\ new_alert_level' # "NO_ALERT"
        /\ Rank(new_alert_level') < Rank(current_alert[1].alert_level)) =>
          /\ current_alert' = current_alert
          /\ PrimaryCount(effects') = 0]_vars

\* a P2 sample ignored while a P0 alert is open
C7_Witness ==
    /\ branch = "ignored"
    /\ Open
    /\ current_alert[1].alert_level = "P0"
    /\ new_alert_level = "P2"
    /\ PrimaryCount(effects) = 0

(***************************************************************************)
(* C8: after n log_status calls the log holds exactly the last             *)
(* min(n, LogCapacity) messages in arrival order, the most recent last;    *)
(* its length never exceeds LogCapacity.                                   *)
(***************************************************************************)
AllMessages == [k \in 1..(MaxLogged + 1) |-> k]

C8_LogBoundFifo ==
    LET kept == IF logged < LogCapacity THEN logged ELSE LogCapacity
    IN /\ Len(log_history) <= LogCapacity
       /\ log_history = SubSeq(AllMessages, logged - kept + 1, logged)

\* LogCapacity + 1 messages logged: the first is gone, the last is there
C8_Witness ==
    /\ logged = LogCapacity + 1
    /\ Len(log_history) = LogCapacity
    /\ log_history[1] = 2
    /\ log_history[LogCapacity] = LogCapacity + 1

(***************************************************************************)
(* C9: a call that finds no alert open and classifies its sample NO_ALERT  *)
(* changes no state of the monitor and emits no effect; the state it       *)
(* leaves is the state it found, so a second identical call does the same. *)
(***************************************************************************)
C9_QuietIdempotent ==
    [][(CallStep /\ ~Open /\ new_alert_level' = "NO_ALERT") =>
          /\ current_alert' = None
          /\ log_history' = log_history
          /\ clock' = clock
          /\ effects' = <<>>
          /\ branch' = "quiet"]_vars

C9_Witness ==
    /\ branch = "quiet"
    /\ new_alert_level = "NO_ALERT"
    /\ current_alert = None
    /\ effects = <<>>

(***************************************************************************)
(* C10: whenever an alert is open, its last_notified is not earlier than   *)
(* its trigger_time.                                                       *)
(***************************************************************************)
C10_NotifiedNotBeforeTrigger ==
    Open => current_alert[1].last_notified >= current_alert[1].trigger_time

\* an alert resent after it was opened
C10_Witness ==
    /\ branch = "resent"
    /\ Open
    /\ current_alert[1].last_notified > current_alert[1].trigger_time

(***************************************************************************)
(* C11 as stated: a call in which simulate_pr_merge fires leaves the level *)
(* and the timestamps of the open alert unchanged, and the monitor goes    *)
(* from an open alert to no alert only in a call whose sample classifies   *)
(* NO_ALERT.                                                               *)
(***************************************************************************)
C11_MergeCallLeavesAlert ==
    [][/\ (CallStep /\ Open /\ RemediationCount(effects') >= 1) =>
             current_alert' = current_alert
       /\ (Open /\ current_alert' = None) =>
             (CallStep /\ new_alert_level' = "NO_ALERT")]_vars

(***************************************************************************)
(* C11 amended: simulate_pr_merge does not touch the alert: after a call   *)
(* in which it fires an alert is open, and the alert the call found open   *)
(* is unchanged unless that same call escalates it or resends it (then     *)
(* exactly one e-mail goes to the team); the monitor goes from an open     *)
(* alert to no alert only in a call whose sample classifies NO_ALERT.      *)
(***************************************************************************)
C11_RemediationKeepsAlert ==
    [][/\ (CallStep /\ RemediationCount(effects') >= 1) =>
             /\ current_alert' # None
             /\ (Open /\ PrimaryCount(effects') = 0) => current_alert' = current_alert
             /\ (Open /\ current_alert' # current_alert) => PrimaryCount(effects') = 1
       /\ (Open /\ current_alert' = None) =>
             (CallStep /\ new_alert_level' = "NO_ALERT")]_vars

\* a PR merge simulated in a call that ignores a lower sample: the alert stays
C11_Witness ==
    /\ branch = "ignored"
    /\ Open
    /\ RemediationCount(effects) = 1
    /\ PrimaryCount(effects) = 0

(***************************************************************************)
(* C12 as stated: when the monitoring loop has been stopped by a           *)
(* KeyboardInterrupt no partially applied transition is observable: an     *)
(* alert the interrupted call opened or escalated has had its e-mail to    *)
(* the team sent, a resend that was e-mailed has had last_notified         *)
(* refreshed, and the log is not longer than LogCapacity.                  *)
(***************************************************************************)
C12_StoppedBetweenTransitions ==
    pc = "stopped" =>
        /\ (/\ branch \in {"opened", "upgraded"}
            /\ Open
            /\ current_alert[1].alert_level = new_alert_level)
              => PrimaryCount(effects) = 1
        /\ (branch = "resent" /\ PrimaryCount(effects) = 1)
              => ~ResendDue(current_alert[1], clock)
        /\ Len(log_history) <= LogCapacity

(***************************************************************************)
(* C13: a call with a sample of the level of the open alert, made when the *)
(* repeat time has elapsed since last_notified, sets last_notified to a    *)
(* clock read of that call and leaves the level and trigger_time of the    *)
(* alert unchanged, so the deadline of the e-mail to the boss stays.       *)
(***************************************************************************)
C13_ResendBumpsOnlyLastNotified ==
    [][(/\ CallStep
        /\ Open
        /\ new_alert_level' = current_alert[1].alert_level
        /\ clock - current_alert[1].last_notified
              >= ALERT_REPEAT_TIMES[current_alert[1].alert_level]) =>
          /\ current_alert' # None
          /\ current_alert'[1].alert_level = current_alert[1].alert_level
          /\ current_alert'[1].trigger_time = current_alert[1].trigger_time
          /\ current_alert'[1].last_notified >= clock
          /\ current_alert'[1].last_notified <= clock'
          /\ current_alert'[1].trigger_time
                + ALERT_REPEAT_TIMES[current_alert'[1].alert_level] * BossFactor
                = current_alert[1].trigger_time
                     + ALERT_REPEAT_TIMES[current_alert[1].alert_level] * BossFactor]_vars

\* a resend before the deadline of the boss: the alert still dates from 0
C13_Witness ==
    /\ branch = "resent"
    /\ Open
    /\ current_alert[1].trigger_time = 0
    /\ current_alert[1].last_notified = clock
    /\ clock > 0
    /\ SecondaryCount(effects) = 0

(***************************************************************************)
(* C14: handle_alerts is defined in every reachable state for every        *)
(* sample, and ALERT_REPEAT_TIMES is never looked up with NO_ALERT: the    *)
(* level of an open alert (the key of the long-standing check) and the     *)
(* level of a sample that reaches the resend check are keys of the table.  *)
(***************************************************************************)
C14_Totality ==
    /\ Open => current_alert[1].alert_level \in DOMAIN ALERT_REPEAT_TIMES
    /\ (branch \in {"resent", "throttled"}) =>
          new_alert_level \in DOMAIN ALERT_REPEAT_TIMES
    /\ \A s \in Samples : ENABLED HandleAlerts(s[1], s[2])

\* both lookups made in one call: the resend check and the long-standing check
C14_Witness ==
    /\ branch = "throttled"
    /\ Open
    /\ current_alert[1].alert_level = "P1"
    /\ SecondaryCount(effects) = 1

(***************************************************************************)
(* C15: among the effects of one handle_alerts call the e-mail to the team *)
(* comes before the e-mail to the boss, which comes before the PR merge;   *)
(* there is at most one of each.                                           *)
(***************************************************************************)
EffectOrder(e) ==
    IF e.effect = "pr_merge" THEN 3
    ELSE IF e.recipient = BossRecipient THEN 2
    ELSE 1

C15_EffectOrdering ==
    /\ PrimaryCount(effects) <= 1
    /\ SecondaryCount(effects) <= 1
    /\ RemediationCount(effects) <= 1
    /\ Len(effects) = PrimaryCount(effects) + SecondaryCount(effects)
                         + RemediationCount(effects)
    /\ \A i, j \in DOMAIN effects :
          i < j => EffectOrder(effects[i]) < EffectOrder(effects[j])

\* a call that emits all three effects
C15_Witness ==
    /\ Len(effects) = 3
    /\ EffectOrder(effects[1]) = 1
    /\ EffectOrder(effects[2]) = 2
    /\ EffectOrder(effects[3]) = 3

(***************************************************************************)
(* C16: an open alert never has the level NO_ALERT, and right after a      *)
(* handle_alerts call whose sample classifies to a level s above NO_ALERT  *)
(* an alert is open whose level is at least s in rank.                     *)
(***************************************************************************)
C16_OpenAlertCoversSample ==
    /\ Open => current_alert[1].alert_level # "NO_ALERT"
    /\ (/\ branch \in {"opened", "upgraded", "resent", "throttled", "ignored",
                       "quiet", "resolved"}
        /\ new_alert_level # "NO_ALERT") =>
          /\ Open
          /\ Rank(current_alert[1].alert_level) >= Rank(new_alert_level)

\* a P2 sample while a P1 alert is open: the open level is strictly above
C16_Witness ==
    /\ branch = "ignored"
    /\ Open
    /\ current_alert[1].alert_level = "P1"
    /\ new_alert_level = "P2"
    /\ effects = <<>>

(***************************************************************************)
(* C17 as stated: an e-mail goes to the boss only in a call whose          *)
(* long-standing check reads a clock at least five repeat times after the  *)
(* trigger_time of the open alert, and a call that opens or escalates an   *)
(* alert never sends an e-mail to the boss.                                *)
(***************************************************************************)
C17_NoBossWhenCreated ==
    /\ SecondaryCount(effects) >= 1 =>
          /\ Open
          /\ clock - current_alert[1].trigger_time
                >= ALERT_REPEAT_TIMES[current_alert[1].alert_level] * BossFactor
    /\ branch \in {"opened", "upgraded"} => SecondaryCount(effects) = 0

(***************************************************************************)
(* C17 amended: an e-mail goes to the boss only in a call whose            *)
(* long-standing check reads a clock at least five repeat times after the  *)
(* trigger_time of the open alert; a call that opens or escalates an alert *)
(* sends one only when the clock advances that far within the call,        *)
(* between the creation of the alert and the long-standing check.          *)
(***************************************************************************)
C17_BossOnlyWhenDue ==
    SecondaryCount(effects) >= 1 =>
        /\ Open
        /\ clock - current_alert[1].trigger_time
              >= ALERT_REPEAT_TIMES[current_alert[1].alert_level] * BossFactor
        /\ effects[PrimaryCount(effects) + 1]
              = send_email(current_alert[1].alert_level, BossRecipient)

\* the boss notified on the deadline of a P0 alert, by a call that only throttles
C17_Witness ==
    /\ branch = "throttled"
    /\ Open
    /\ current_alert[1].alert_level = "P0"
    /\ clock - current_alert[1].trigger_time = ALERT_REPEAT_TIMES["P0"] * BossFactor
    /\ SecondaryCount(effects) = 1

(***************************************************************************)
(* C18: if handle_alerts keeps being called, the clock keeps advancing and *)
(* from some point on no sample classifies NO_ALERT, then e-mails to the   *)
(* boss keep being sent from some call on: the replacements of the open    *)
(* alert reset trigger_time, but each one strictly raises the level, so    *)
(* they end and cannot postpone the e-mail to the boss forever.            *)
(***************************************************************************)
C18_BossEventuallyNotified ==
    /\ [][(CallStep /\ Open /\ current_alert' # None
              /\ current_alert'[1].trigger_time # current_alert[1].trigger_time)
            => Rank(current_alert'[1].alert_level)
                  > Rank(current_alert[1].alert_level)]_vars
    /\ <>[](new_alert_level # "NO_ALERT") => []<>(SecondaryCount(effects) >= 1)

\* the boss notified about a P0 alert that was triggered before the origin
\* of time last moved
C18_Witness ==
    /\ Open
    /\ current_alert[1].alert_level = "P0"
    /\ current_alert[1].trigger_time < 0
    /\ new_alert_level # "NO_ALERT"
    /\ SecondaryCount(effects) = 1

====
